---------------------------- MODULE Spec2Model ----------------------------
(***************************************************************************)
(* A model of src/main.py: the gain-ratio decision-tree builder            *)
(* (build_tree and the calculate_* functions it calls) and the tree        *)
(* serializer (print_tree), run the way main() runs them: build the tree   *)
(* of a table, then print it.                                              *)
(*                                                                         *)
(* Python floats are IEEE-754 binary64 numbers.  They are modelled bit for *)
(* bit: a float is a sign, a 53-bit integer significand and an exponent,   *)
(* and every operation rounds its exact result to nearest, ties to even.   *)
(* TLC's integers are 32 bits wide, so significands are kept as sequences  *)
(* of 14-bit limbs, least significant first.                               *)
(***************************************************************************)
EXTENDS Integers, Sequences, FiniteSets, TLC

(***************************************************************************)
(* Natural numbers of any size: sequences of limbs, least significant      *)
(* first, without leading zero limbs; << >> is zero.                       *)
(***************************************************************************)
LimbBits == 14

Base == 2 ^ LimbBits

Limb(a, i) == IF i <= Len(a) THEN a[i] ELSE 0

Max2(x, y) == IF x >= y THEN x ELSE y

RECURSIVE BigNorm(_)
BigNorm(a) ==
    IF a = << >> THEN << >>
    ELSE IF a[Len(a)] = 0 THEN BigNorm(SubSeq(a, 1, Len(a) - 1))
    ELSE a

RECURSIVE BigFromInt(_)
BigFromInt(n) ==
    IF n = 0 THEN << >> ELSE <<n % Base>> \o BigFromInt(n \div Base)

RECURSIVE AddLimbs(_, _, _, _)
AddLimbs(a, b, i, carry) ==
    IF i > Len(a) /\ i > Len(b)
    THEN IF carry = 0 THEN << >> ELSE <<carry>>
    ELSE LET s == Limb(a, i) + Limb(b, i) + carry
         IN  <<s % Base>> \o AddLimbs(a, b, i + 1, s \div Base)

BigAdd(a, b) == AddLimbs(a, b, 1, 0)

\* a - b for a >= b
RECURSIVE SubLimbs(_, _, _, _)
SubLimbs(a, b, i, borrow) ==
    IF i > Len(a) THEN << >>
    ELSE LET d == Limb(a, i) - Limb(b, i) - borrow
         IN  IF d < 0 THEN <<d + Base>> \o SubLimbs(a, b, i + 1, 1)
             ELSE <<d>> \o SubLimbs(a, b, i + 1, 0)

BigSub(a, b) == BigNorm(SubLimbs(a, b, 1, 0))

\* -1, 0 or 1 as a < b, a = b, a > b
RECURSIVE CmpLimbs(_, _, _)
CmpLimbs(a, b, i) ==
    IF i = 0 THEN 0
    ELSE IF a[i] < b[i] THEN -1
    ELSE IF a[i] > b[i] THEN 1
    ELSE CmpLimbs(a, b, i - 1)

BigCmp(a, b) ==
    IF Len(a) < Len(b) THEN -1
    ELSE IF Len(a) > Len(b) THEN 1
    ELSE CmpLimbs(a, b, Len(a))

\* a times a small factor f (0 <= f <= Base)
RECURSIVE MulLimbs(_, _, _, _)
MulLimbs(a, f, i, carry) ==
    IF i > Len(a)
    THEN IF carry = 0 THEN << >> ELSE <<carry>>
    ELSE LET s == a[i] * f + carry
         IN  <<s % Base>> \o MulLimbs(a, f, i + 1, s \div Base)

BigMulSmall(a, f) == BigNorm(MulLimbs(a, f, 1, 0))

ZeroLimbs(q) == [i \in 1..q |-> 0]

RECURSIVE MulAcc(_, _, _)
MulAcc(a, b, j) ==
    IF j > Len(b) THEN << >>
    ELSE BigAdd(IF b[j] = 0 THEN << >>
                ELSE ZeroLimbs(j - 1) \o BigMulSmall(a, b[j]),
                MulAcc(a, b, j + 1))

BigMul(a, b) == IF a = << >> \/ b = << >> THEN << >> ELSE MulAcc(a, b, 1)

\* a * 2^k
BigShl(a, k) ==
    IF a = << >> THEN << >>
    ELSE ZeroLimbs(k \div LimbBits) \o BigMulSmall(a, 2 ^ (k % LimbBits))

\* floor(a / 2^r) for 0 <= r < LimbBits
ShrLimbs(a, r) ==
    [i \in 1..Len(a) |->
        (a[i] \div (2 ^ r)) + (Limb(a, i + 1) % (2 ^ r)) * (2 ^ (LimbBits - r))]

\* floor(a / 2^k)
BigShr(a, k) ==
    LET q == k \div LimbBits
    IN  IF q >= Len(a) THEN << >>
        ELSE BigNorm(ShrLimbs(SubSeq(a, q + 1, Len(a)), k % LimbBits))

RECURSIVE BitLen(_)
BitLen(n) == IF n = 0 THEN 0 ELSE 1 + BitLen(n \div 2)

\* number of bits of a: the least L with a < 2^L
BigLen(a) ==
    IF a = << >> THEN 0 ELSE (Len(a) - 1) * LimbBits + BitLen(a[Len(a)])

BigOdd(a) == a # << >> /\ a[1] % 2 = 1


\* k steps of long division of r * 2^k by d, for r < d and k <= LimbBits:
\* [q |-> the quotient, an integer below 2^k, r |-> the remainder]
RECURSIVE DivSteps(_, _, _, _)
DivSteps(q, r, d, k) ==
    IF k = 0 THEN [q |-> q, r |-> r]
    ELSE LET Step(r2) ==
                 IF BigCmp(r2, d) >= 0
                 THEN DivSteps(2 * q + 1, BigSub(r2, d), d, k - 1)
                 ELSE DivSteps(2 * q, r2, d, k - 1)
         IN  Step(BigMulSmall(r, 2))

\* [q |-> floor(r * 2^(4 * LimbBits) / d), r |-> the remainder], for r < d
BigDivFrac(r, d) ==
    LET Limbs(c1, c2, c3, c4) == [q |-> <<c1.q, c2.q, c3.q, c4.q>>, r |-> c1.r]
        After3(c2, c3, c4)    == Limbs(DivSteps(0, c2.r, d, LimbBits), c2, c3, c4)
        After2(c3, c4)        == After3(DivSteps(0, c3.r, d, LimbBits), c3, c4)
        After1(c4)            == After2(DivSteps(0, c4.r, d, LimbBits), c4)
    IN  After1(DivSteps(0, r, d, LimbBits))

(***************************************************************************)
(* binary64.  A float is [neg, m, e] and stands for (-1)^neg * m * 2^e,    *)
(* where m is zero (then neg = FALSE and e = 0) or has exactly Precision   *)
(* bits.  The values the program computes are far from the subnormal and   *)
(* overflow ranges, infinities and NaN never arise, and a zero result is   *)
(* +0.0 (the program compares zeros with == and >, which do not see the    *)
(* sign of zero).                                                          *)
(***************************************************************************)
Precision == 53

FZero == [neg |-> FALSE, m |-> << >>, e |-> 0]

\* the float nearest to (-1)^neg * n * 2^e, ties to even
Round(neg, n, e) ==
    LET \* q1 is the rounded significand, of Precision bits or 2^Precision
        Carried(q1, s) ==
            IF BigLen(q1) > Precision
            THEN [neg |-> neg, m |-> BigShr(q1, 1), e |-> e + s + 1]
            ELSE [neg |-> neg, m |-> q1, e |-> e + s]
        \* c compares the s bits cut off with half a unit of q
        Nearest(q, c, s) ==
            Carried(IF c > 0 \/ (c = 0 /\ BigOdd(q)) THEN BigAdd(q, <<1>>) ELSE q, s)
        Cut(q, s) ==
            Nearest(q, BigCmp(BigSub(n, BigShl(q, s)), BigShl(<<1>>, s - 1)), s)
        OfLength(L) ==
            IF L = 0 THEN FZero
            ELSE IF L <= Precision
            THEN [neg |-> neg, m |-> BigShl(n, Precision - L), e |-> e - (Precision - L)]
            ELSE Cut(BigShr(n, L - Precision), L - Precision)
    IN  OfLength(BigLen(n))

FromInt(n) == Round(n < 0, BigFromInt(IF n >= 0 THEN n ELSE -n), 0)

\* the floats of the model
Floats == [neg : BOOLEAN, m : Seq(0..(Base - 1)), e : Int]

FNeg(x) == IF x.m = << >> THEN x ELSE [x EXCEPT !.neg = ~x.neg]

\* The operations take their operands as values: each is a function, applied
\* to the operands.
FAddFn[x \in Floats, y \in Floats] ==
    IF x.m = << >> THEN y
    ELSE IF y.m = << >> THEN x
    ELSE LET \* nx * 2^e and ny * 2^e are |x| and |y|; c compares them
             Sum(nx, ny, e, c) ==
                 IF x.neg # y.neg /\ c = 0 THEN FZero
                 ELSE Round(IF c >= 0 THEN x.neg ELSE y.neg,
                            IF x.neg = y.neg THEN BigAdd(nx, ny)
                            ELSE IF c > 0 THEN BigSub(nx, ny)
                            ELSE BigSub(ny, nx),
                            e)
             Compared(nx, ny, e) == Sum(nx, ny, e, BigCmp(nx, ny))
             Aligned(e) == Compared(BigShl(x.m, x.e - e), BigShl(y.m, y.e - e), e)
         IN  Aligned(IF x.e <= y.e THEN x.e ELSE y.e)

FAdd(x, y) == FAddFn[x, y]

FSub(x, y) == FAdd(x, FNeg(y))

FMulFn[x \in Floats, y \in Floats] ==
    IF x.m = << >> \/ y.m = << >> THEN FZero
    ELSE Round(x.neg # y.neg, BigMul(x.m, y.m), x.e + y.e)

FMul(x, y) == FMulFn[x, y]

\* x / y for y # 0: the quotient of the significands to 4 * LimbBits
\* (= Precision + 3) fraction bits and a sticky bit for the remainder, rounded
FDivFn[x \in Floats, y \in Floats] ==
    IF x.m = << >> THEN FZero
    ELSE LET Quotient(ge, d) ==
                 Round(x.neg # y.neg,
                       BigAdd(BigMulSmall(BigNorm(d.q \o <<IF ge THEN 1 ELSE 0>>), 2),
                              IF d.r = << >> THEN << >> ELSE <<1>>),
                       x.e - y.e - 4 * LimbBits - 1)
             Divided(ge) ==
                 Quotient(ge, BigDivFrac(IF ge THEN BigSub(x.m, y.m) ELSE x.m, y.m))
         IN  Divided(BigCmp(x.m, y.m) >= 0)

FDiv(x, y) == FDivFn[x, y]

\* -1, 0 or 1 as x < y, x = y, x > y
FCmpFn[x \in Floats, y \in Floats] ==
    LET mag == IF x.e # y.e THEN (IF x.e < y.e THEN -1 ELSE 1)
               ELSE BigCmp(x.m, y.m)
    IN  IF x.m = << >> /\ y.m = << >> THEN 0
        ELSE IF x.m = << >> THEN (IF y.neg THEN 1 ELSE -1)
        ELSE IF y.m = << >> THEN (IF x.neg THEN -1 ELSE 1)
        ELSE IF x.neg # y.neg THEN (IF x.neg THEN -1 ELSE 1)
        ELSE IF x.neg THEN -mag ELSE mag

FCmp(x, y) == FCmpFn[x, y]

FGreater(x, y) == FCmp(x, y) > 0

Flt(neg, m, e) == [neg |-> neg, m |-> m, e |-> e]

(***************************************************************************)
(* math.log2 is the C library's function.  The program applies it only to  *)
(* the quotients count / total of two row counts, so it is modelled by its *)
(* values there: for every fraction with a denominator up to 12, the float *)
(* nearest to the fraction and the float math.log2 returns for it.         *)
(***************************************************************************)
Log2Table ==
    \* log2(1.0) = 0.0
    (Flt(FALSE, <<0, 0, 0, 1024>>, -52) :> FZero) @@
    \* log2(1/12) = log2(0.08333333333333333) = -3.584962500721156
    (Flt(FALSE, <<5461, 5461, 5461, 1365>>, -56) :> Flt(TRUE, <<7860, 1855, 8205, 1835>>, -51)) @@
    \* log2(1/11) = log2(0.09090909090909091) = -3.4594316186372973
    (Flt(FALSE, <<5958, 4468, 7447, 1489>>, -56) :> Flt(TRUE, <<7490, 12313, 3751, 1771>>, -51)) @@
    \* log2(1/10) = log2(0.1) = -3.321928094887362
    (Flt(FALSE, <<6554, 9830, 6553, 1638>>, -56) :> Flt(TRUE, <<9073, 9702, 13552, 1700>>, -51)) @@
    \* log2(1/9) = log2(0.1111111111111111) = -3.1699250014423126
    (Flt(FALSE, <<1820, 12743, 7281, 1820>>, -56) :> Flt(TRUE, <<15721, 3710, 26, 1623>>, -51)) @@
    \* log2(1/8) = log2(0.125) = -3.0
    (Flt(FALSE, <<0, 0, 0, 1024>>, -55) :> Flt(TRUE, <<0, 0, 0, 1536>>, -51)) @@
    \* log2(1/7) = log2(0.14285714285714285) = -2.807354922057604
    (Flt(FALSE, <<9362, 2340, 4681, 1170>>, -55) :> Flt(TRUE, <<1069, 15696, 5991, 1437>>, -51)) @@
    \* log2(1/6) = log2(0.16666666666666666) = -2.584962500721156
    (Flt(FALSE, <<5461, 5461, 5461, 1365>>, -55) :> Flt(TRUE, <<7860, 1855, 8205, 1323>>, -51)) @@
    \* log2(2/11) = log2(0.18181818181818182) = -2.4594316186372973
    (Flt(FALSE, <<5958, 4468, 7447, 1489>>, -55) :> Flt(TRUE, <<7490, 12313, 3751, 1259>>, -51)) @@
    \* log2(1/5) = log2(0.2) = -2.321928094887362
    (Flt(FALSE, <<6554, 9830, 6553, 1638>>, -55) :> Flt(TRUE, <<9073, 9702, 13552, 1188>>, -51)) @@
    \* log2(2/9) = log2(0.2222222222222222) = -2.1699250014423126
    (Flt(FALSE, <<1820, 12743, 7281, 1820>>, -55) :> Flt(TRUE, <<15721, 3710, 26, 1111>>, -51)) @@
    \* log2(1/4) = log2(0.25) = -2.0
    (Flt(FALSE, <<0, 0, 0, 1024>>, -54) :> Flt(TRUE, <<0, 0, 0, 1024>>, -51)) @@
    \* log2(3/11) = log2(0.2727272727272727) = -1.8744691179161412
    (Flt(FALSE, <<4468, 7447, 1489, 1117>>, -54) :> Flt(TRUE, <<15644, 4531, 7477, 1919>>, -52)) @@
    \* log2(2/7) = log2(0.2857142857142857) = -1.8073549220576042
    (Flt(FALSE, <<9362, 2340, 4681, 1170>>, -54) :> Flt(TRUE, <<2138, 15008, 11983, 1850>>, -52)) @@
    \* log2(3/10) = log2(0.3) = -1.7369655941662063
    (Flt(FALSE, <<13107, 3276, 13107, 1228>>, -54) :> Flt(TRUE, <<2427, 15694, 10694, 1778>>, -52)) @@
    \* log2(1/3) = log2(0.3333333333333333) = -1.5849625007211563
    (Flt(FALSE, <<5461, 5461, 5461, 1365>>, -54) :> Flt(TRUE, <<15721, 3710, 26, 1623>>, -52)) @@
    \* log2(4/11) = log2(0.36363636363636365) = -1.4594316186372973
    (Flt(FALSE, <<5958, 4468, 7447, 1489>>, -54) :> Flt(TRUE, <<14980, 8242, 7503, 1494>>, -52)) @@
    \* log2(3/8) = log2(0.375) = -1.415037499278844
    (Flt(FALSE, <<0, 0, 0, 1536>>, -54) :> Flt(TRUE, <<664, 12673, 16357, 1448>>, -52)) @@
    \* log2(2/5) = log2(0.4) = -1.3219280948873622
    (Flt(FALSE, <<6554, 9830, 6553, 1638>>, -54) :> Flt(TRUE, <<1762, 3021, 10721, 1353>>, -52)) @@
    \* log2(5/12) = log2(0.4166666666666667) = -1.2630344058337937
    (Flt(FALSE, <<10923, 10922, 10922, 1706>>, -54) :> Flt(TRUE, <<13957, 689, 5689, 1293>>, -52)) @@
    \* log2(3/7) = log2(0.42857142857142855) = -1.222392421336448
    (Flt(FALSE, <<14043, 11702, 7021, 1755>>, -54) :> Flt(TRUE, <<2802, 11297, 11957, 1251>>, -52)) @@
    \* log2(4/9) = log2(0.4444444444444444) = -1.1699250014423124
    (Flt(FALSE, <<1820, 12743, 7281, 1820>>, -54) :> Flt(TRUE, <<15057, 7421, 52, 1198>>, -52)) @@
    \* log2(5/11) = log2(0.45454545454545453) = -1.137503523749935
    (Flt(FALSE, <<7447, 1489, 13405, 1861>>, -54) :> Flt(TRUE, <<13217, 5221, 13166, 1164>>, -52)) @@
    \* log2(1/2) = log2(0.5) = -1.0
    (Flt(FALSE, <<0, 0, 0, 1024>>, -53) :> Flt(TRUE, <<0, 0, 0, 1024>>, -52)) @@
    \* log2(6/11) = log2(0.5454545454545454) = -0.8744691179161412
    (Flt(FALSE, <<4468, 7447, 1489, 1117>>, -53) :> Flt(TRUE, <<14904, 9063, 14954, 1790>>, -53)) @@
    \* log2(5/9) = log2(0.5555555555555556) = -0.84799690655495
    (Flt(FALSE, <<7282, 1820, 12743, 1137>>, -53) :> Flt(TRUE, <<10204, 8801, 11430, 1736>>, -53)) @@
    \* log2(4/7) = log2(0.5714285714285714) = -0.8073549220576042
    (Flt(FALSE, <<9362, 2340, 4681, 1170>>, -53) :> Flt(TRUE, <<4276, 13632, 7583, 1653>>, -53)) @@
    \* log2(7/12) = log2(0.5833333333333334) = -0.777607578663552
    (Flt(FALSE, <<10923, 10922, 10922, 1194>>, -53) :> Flt(TRUE, <<10781, 10173, 8852, 1592>>, -53)) @@
    \* log2(3/5) = log2(0.6) = -0.7369655941662062
    (Flt(FALSE, <<13107, 3276, 13107, 1228>>, -53) :> Flt(TRUE, <<4853, 15004, 5005, 1509>>, -53)) @@
    \* log2(5/8) = log2(0.625) = -0.6780719051126377
    (Flt(FALSE, <<0, 0, 0, 1280>>, -53) :> Flt(TRUE, <<12859, 10341, 11325, 1388>>, -53)) @@
    \* log2(7/11) = log2(0.6363636363636364) = -0.6520766965796931
    (Flt(FALSE, <<13405, 5957, 4468, 1303>>, -53) :> Flt(TRUE, <<9300, 2853, 7423, 1335>>, -53)) @@
    \* log2(2/3) = log2(0.6666666666666666) = -0.5849625007211563
    (Flt(FALSE, <<5461, 5461, 5461, 1365>>, -53) :> Flt(TRUE, <<15058, 7421, 52, 1198>>, -53)) @@
    \* log2(7/10) = log2(0.7) = -0.5145731728297583
    (Flt(FALSE, <<9830, 6553, 9830, 1433>>, -53) :> Flt(TRUE, <<15635, 8793, 13858, 1053>>, -53)) @@
    \* log2(5/7) = log2(0.7142857142857143) = -0.4854268271702417
    (Flt(FALSE, <<11703, 7021, 14043, 1462>>, -53) :> Flt(TRUE, <<1499, 15180, 5050, 1988>>, -54)) @@
    \* log2(8/11) = log2(0.7272727272727273) = -0.4594316186372972
    (Flt(FALSE, <<5958, 4468, 7447, 1489>>, -53) :> Flt(TRUE, <<10766, 203, 13630, 1881>>, -54)) @@
    \* log2(3/4) = log2(0.75) = -0.4150374992788438
    (Flt(FALSE, <<0, 0, 0, 1536>>, -53) :> Flt(TRUE, <<2654, 1540, 16279, 1699>>, -54)) @@
    \* log2(7/9) = log2(0.7777777777777778) = -0.36257007938470825
    (Flt(FALSE, <<3641, 9102, 14563, 1592>>, -53) :> Flt(TRUE, <<2525, 2423, 1426, 1485>>, -54)) @@
    \* log2(4/5) = log2(0.8) = -0.3219280948873623
    (Flt(FALSE, <<6554, 9830, 6553, 1638>>, -53) :> Flt(TRUE, <<7050, 12084, 10116, 1318>>, -54)) @@
    \* log2(9/11) = log2(0.8181818181818182) = -0.2895066171949848
    (Flt(FALSE, <<14895, 2978, 10426, 1675>>, -53) :> Flt(TRUE, <<16074, 3283, 13420, 1185>>, -54)) @@
    \* log2(5/6) = log2(0.8333333333333334) = -0.2630344058337938
    (Flt(FALSE, <<10923, 10922, 10922, 1706>>, -53) :> Flt(TRUE, <<6678, 2759, 6372, 1077>>, -54)) @@
    \* log2(6/7) = log2(0.8571428571428571) = -0.22239242133644802
    (Flt(FALSE, <<14043, 11702, 7021, 1755>>, -53) :> Flt(TRUE, <<6029, 8457, 13741, 1821>>, -55)) @@
    \* log2(7/8) = log2(0.875) = -0.19264507794239588
    (Flt(FALSE, <<0, 0, 0, 1792>>, -53) :> Flt(TRUE, <<15666, 11006, 2432, 1578>>, -55)) @@
    \* log2(8/9) = log2(0.8888888888888888) = -0.16992500144231246
    (Flt(FALSE, <<1820, 12743, 7281, 1820>>, -53) :> Flt(TRUE, <<5771, 10223, 419, 1392>>, -55)) @@
    \* log2(9/10) = log2(0.9) = -0.15200309344504995
    (Flt(FALSE, <<3277, 13107, 3276, 1843>>, -53) :> Flt(TRUE, <<8333, 13945, 3429, 1245>>, -55)) @@
    \* log2(10/11) = log2(0.9090909090909091) = -0.13750352374993496
    (Flt(FALSE, <<7447, 1489, 13405, 1861>>, -53) :> Flt(TRUE, <<7434, 9006, 7026, 1126>>, -55)) @@
    \* log2(11/12) = log2(0.9166666666666666) = -0.12553088208385899
    (Flt(FALSE, <<5461, 5461, 5461, 1877>>, -53) :> Flt(TRUE, <<5928, 12896, 5717, 1028>>, -55))


math_log2(p) == Log2Table[p]

(***************************************************************************)
(* Python values.  A table cell is an int, a float or a str (load_data,    *)
(* lines 23-29).  The floats that occur as cells are whole numbers: v      *)
(* stands for v.0.  A str is a sequence of characters.                     *)
(***************************************************************************)
PyInt(n)   == [t |-> "int",   v |-> n]
PyFloat(n) == [t |-> "float", v |-> n]
PyStr(s)   == [t |-> "str",   v |-> s]

\* a == b: numbers compare by value whatever their type, a str equals only
\* the same str.  Dictionaries and sets tell their keys apart by this.
PyEq(a, b) ==
    IF a.t = "str" \/ b.t = "str" THEN a.t = b.t /\ a.v = b.v
    ELSE a.v = b.v

DigitChars == <<"0", "1", "2", "3", "4", "5", "6", "7", "8", "9">>

\* str(n) for an int n >= 0
RECURSIVE Decimal(_)
Decimal(n) ==
    IF n < 10 THEN <<DigitChars[n + 1]>>
    ELSE Decimal(n \div 10) \o <<DigitChars[(n % 10) + 1]>>

\* str(x)
str(x) ==
    CASE x.t = "int"   -> Decimal(x.v)
      [] x.t = "float" -> Decimal(x.v) \o <<".", "0">>
      [] x.t = "str"   -> x.v

\* the code points of the characters that occur in the keys
ord ==
    (" " :> 32) @@ ("." :> 46) @@
    ("0" :> 48) @@ ("1" :> 49) @@ ("2" :> 50) @@ ("3" :> 51) @@ ("4" :> 52) @@
    ("5" :> 53) @@ ("6" :> 54) @@ ("7" :> 55) @@ ("8" :> 56) @@ ("9" :> 57) @@
    ("A" :> 65) @@ ("B" :> 66)

\* s < u for two strs: by code point, the first difference decides
RECURSIVE StrLess(_, _)
StrLess(s, u) ==
    IF u = << >> THEN FALSE
    ELSE IF s = << >> THEN TRUE
    ELSE IF ord[s[1]] # ord[u[1]] THEN ord[s[1]] < ord[u[1]]
    ELSE StrLess(Tail(s), Tail(u))

(***************************************************************************)
(* A dict is the sequence of its items [key, val] in insertion order; no   *)
(* two keys are equal (PyEq).                                              *)
(***************************************************************************)
\* the position of key k in d, 0 when d has no such key
DictFind(d, k) ==
    IF \E i \in 1..Len(d) : PyEq(d[i].key, k)
    THEN CHOOSE i \in 1..Len(d) : PyEq(d[i].key, k)
    ELSE 0

DictKeys(d)   == [i \in 1..Len(d) |-> d[i].key]
DictValues(d) == [i \in 1..Len(d) |-> d[i].val]

RECURSIVE SumSeq(_)
SumSeq(s) == IF s = << >> THEN 0 ELSE Head(s) + SumSeq(Tail(s))

\* for value in values: counts[value] = counts.get(value, 0) + 1
RECURSIVE CountLoop(_, _)
CountLoop(counts, values) ==
    IF values = << >> THEN counts
    ELSE LET value == Head(values)
             i     == DictFind(counts, value)
         IN  CountLoop(IF i = 0 THEN Append(counts, [key |-> value, val |-> 1])
                       ELSE [counts EXCEPT ![i].val = @ + 1],
                       Tail(values))

Counter(values) == CountLoop(<< >>, values)

\* row[attribute_index] of every row; attribute_index counts from 0
Column(data, attribute_index) ==
    [r \in 1..Len(data) |-> data[r][attribute_index + 1]]

\* row[-1] of every row
DecisionColumn(data) == [r \in 1..Len(data) |-> data[r][Len(data[r])]]

(***************************************************************************)
(* The tables build_tree is run on.  A table has k >= 0 condition columns  *)
(* and the decision column, and at most MaxCells cells in all.  The tables *)
(* of the first family hold the ints 2 and 10 (str puts "10" before "2");  *)
(* those of the second have one condition column over 1, 1.0 and "1",      *)
(* three cells that Python's == and str tell apart differently.            *)
(***************************************************************************)
MaxCells == 9

MaxTypedRows == 3

DecisionValues == {PyStr(<<"A">>), PyStr(<<"B">>)}

IntValues == {PyInt(2), PyInt(10)}

TypedValues == {PyInt(1), PyFloat(1), PyStr(<<"1">>)}

RowsOver(k, values) ==
    {attrs \o <<d>> : attrs \in [1..k -> values], d \in DecisionValues}

TablesOver(k, m, values) == [1..m -> RowsOver(k, values)]

Shapes == {s \in (0..MaxCells) \X (0..MaxCells) : (s[1] + 1) * s[2] <= MaxCells}

Tables ==
    UNION {TablesOver(s[1], s[2], IntValues) : s \in Shapes}
    \cup UNION {TablesOver(1, m, TypedValues) : m \in 1..MaxTypedRows}

(***************************************************************************)
(* The quotients and the entropies are functions of a few small counts.    *)
(* They are tabulated over the counts the tables above can give, so that   *)
(* TLC computes each float once.                                           *)
(***************************************************************************)
MaxCount == IF MaxCells >= MaxTypedRows THEN MaxCells ELSE MaxTypedRows

\* no column holds more different values than this
MaxKeys ==
    Max2(Cardinality(DecisionValues),
         Max2(Cardinality(IntValues), Cardinality(TypedValues)))

\* Python's a / b for two ints: the float nearest to the quotient
QuotientTable ==
    [ab \in (0..MaxCount) \X (1..MaxCount) |-> FDiv(FromInt(ab[1]), FromInt(ab[2]))]
    @@ << >>

TrueDiv(a, b) == QuotientTable[a, b]

\* lines 57-60: for count in counts.values(): ...
RECURSIVE EntropyLoop(_, _, _)
EntropyLoop(values, total, entropy) ==
    IF values = << >> THEN entropy
    ELSE LET count == Head(values)
             Term(p) ==
                 EntropyLoop(Tail(values), total,
                             IF FGreater(p, FZero)
                             THEN FSub(entropy, FMul(p, math_log2(p)))
                             ELSE entropy)
         IN  Term(TrueDiv(count, total))

CountSeqs ==
    {cs \in UNION {[1..n -> 1..MaxCount] : n \in 1..MaxKeys} : SumSeq(cs) <= MaxCount}

EntropyTable == [cs \in CountSeqs |-> EntropyLoop(cs, SumSeq(cs), FZero)] @@ << >>

calculate_entropy(counts) == EntropyTable[DictValues(counts)]

\* groups.setdefault(value, []).append(row) for every row
RECURSIVE GroupLoop(_, _, _)
GroupLoop(groups, data, attribute_index) ==
    IF data = << >> THEN groups
    ELSE LET row   == Head(data)
             value == row[attribute_index + 1]
             i     == DictFind(groups, value)
         IN  GroupLoop(IF i = 0 THEN Append(groups, [key |-> value, val |-> <<row>>])
                       ELSE [groups EXCEPT ![i].val = Append(@, row)],
                       Tail(data), attribute_index)

\* lines 77-83: for subset in groups.values(): ...
RECURSIVE InfoLoop(_, _, _)
InfoLoop(subsets, total, info) ==
    IF subsets = << >> THEN info
    ELSE LET subset          == Head(subsets)
             decision_counts == Counter(DecisionColumn(subset))
             subset_entropy  == calculate_entropy(decision_counts)
         IN  InfoLoop(Tail(subsets), total,
                      FAdd(info, FMul(TrueDiv(Len(subset), total), subset_entropy)))

calculate_attribute_info(data, attribute_index) ==
    LET total  == Len(data)
        groups == GroupLoop(<< >>, data, attribute_index)
    IN  InfoLoop(DictValues(groups), total, FZero)

calculate_gain(data, attribute_index, decision_entropy) ==
    LET attribute_info == calculate_attribute_info(data, attribute_index)
    IN  FSub(decision_entropy, attribute_info)

calculate_split_info(data, attribute_index) ==
    calculate_entropy(Counter(Column(data, attribute_index)))

\* The int 0 of line 115 and the float 0.0 are the same number to every
\* comparison made of the result; both are FZero here.
calculate_gain_ratio_ZeroSplitOne(data, attribute_index, decision_entropy) ==
    LET Ratio(gain, split_info) ==
            IF FCmp(split_info, FZero) = 0 THEN FromInt(1)
            ELSE FDiv(gain, split_info)
    IN  Ratio(calculate_gain(data, attribute_index, decision_entropy),
              calculate_split_info(data, attribute_index))

calculate_gain_ratio(data, attribute_index, decision_entropy) ==
    LET Ratio(gain, split_info) ==
            IF FCmp(split_info, FZero) = 0 THEN FZero
            ELSE FDiv(gain, split_info)
    IN  Ratio(calculate_gain(data, attribute_index, decision_entropy),
              calculate_split_info(data, attribute_index))

(***************************************************************************)
(* The tree.  None is <<>> and a value x that may be None is <<x>>.  A     *)
(* node is known by its path, the branch values from the root down to it;  *)
(* children is the node's dict, kept as its keys in insertion order: the   *)
(* child under key v of the node at path is the node at path \o <<v>>.     *)
(* data is not a field of the program's TreeNode: it keeps the argument of  *)
(* the build_tree call that made the node.                                 *)
(***************************************************************************)
None == << >>

TreeNode(attribute, children, label, data) ==
    [kind |-> "TreeNode", attribute |-> attribute, children |-> children,
     label |-> label, data |-> data]

\* what build_tree returns for the empty table (line 141)
NoTree ==
    [kind |-> "None", attribute |-> None, children |-> << >>,
     label |-> None, data |-> << >>]

AllSame_FirstAndLast(decisions) ==
    PyEq(decisions[1], decisions[Len(decisions)])

\* len(set(decisions)) == 1
AllSame(decisions) ==
    \A i \in 1..Len(decisions) : PyEq(decisions[i], decisions[1])

\* num_attributes = len(data[0]) - 1
num_attributes(data) == Len(data[1]) - 1

\* lines 159-163: for i in range(num_attributes): ...
RECURSIVE BestLoop(_, _, _, _)
BestLoop_LaterWins(data, decision_entropy, i, best) ==
    IF i >= num_attributes(data) THEN best
    ELSE LET Compare(gr) ==
                 BestLoop(data, decision_entropy, i + 1,
                          IF FCmp(gr, best.best_gain_ratio) >= 0
                          THEN [best_attribute |-> <<i>>, best_gain_ratio |-> gr]
                          ELSE best)
         IN  Compare(calculate_gain_ratio(data, i, decision_entropy))

BestLoop(data, decision_entropy, i, best) ==
    IF i >= num_attributes(data) THEN best
    ELSE LET Compare(gr) ==
                 BestLoop(data, decision_entropy, i + 1,
                          IF FGreater(gr, best.best_gain_ratio)
                          THEN [best_attribute |-> <<i>>, best_gain_ratio |-> gr]
                          ELSE best)
         IN  Compare(calculate_gain_ratio(data, i, decision_entropy))

\* lines 149-163: the best attribute of a table whose decisions differ
BestAttribute(data) ==
    LET decision_counts  == Counter(DecisionColumn(data))
        decision_entropy == calculate_entropy(decision_counts)
    IN  BestLoop(data, decision_entropy, 0,
                 [best_attribute |-> None, best_gain_ratio |-> FromInt(-1)])

MaxByCount_LastMaximum(counts) ==
    LET i == CHOOSE i \in 1..Len(counts) :
                 /\ \A j \in 1..Len(counts) : counts[j].val <= counts[i].val
                 /\ \A j \in (i + 1)..Len(counts) : counts[j].val < counts[i].val
    IN  counts[i].key

\* max(decision_counts, key=decision_counts.get): the first key, in the
\* dict's order, whose count no other key's count exceeds
MaxByCount(counts) ==
    LET i == CHOOSE i \in 1..Len(counts) :
                 /\ \A j \in 1..Len(counts) : counts[j].val <= counts[i].val
                 /\ \A j \in 1..(i - 1) : counts[j].val < counts[i].val
    IN  counts[i].key

\* set(row[best_attribute] for row in data): of equal values the set keeps
\* the first
ValueSet(data, attribute_index) ==
    DictKeys(Counter(Column(data, attribute_index)))

\* The order in which a set is iterated is not defined by the language (and
\* changes from run to run for strs): any order of its elements.
IterationOrders(values) ==
    {[i \in 1..Len(values) |-> values[f[i]]] :
        f \in {g \in [1..Len(values) -> 1..Len(values)] :
                  \A i, j \in 1..Len(values) : g[i] = g[j] => i = j}}

Subset_Unfiltered(data, attribute_index, value) == data

Subset_ByStr(data, attribute_index, value) ==
    SelectSeq(data, LAMBDA row : str(row[attribute_index + 1]) = str(value))

\* [row for row in data if row[best_attribute] == value]
Subset(data, attribute_index, value) ==
    SelectSeq(data, LAMBDA row : PyEq(row[attribute_index + 1], value))

(***************************************************************************)
(* print_tree.  A line of output is a sequence of characters.              *)
(***************************************************************************)
IndentWidth == 10

Spaces(n) == [i \in 1..n |-> " "]

BrakDrzewa    == <<"B", "r", "a", "k", " ", "d", "r", "z", "e", "w", "a">>
ArrowD        == <<" ", "-", ">", " ", "D", ":", " ">>
Atrybut       == <<"A", "t", "r", "y", "b", "u", "t", ":", " ">>
ArrowAtrybut  == <<"-", ">">> \o Atrybut

\* sorted(keys, key=str), for a sequence of keys: the sort is stable, a key
\* goes behind the keys before it whose str is not greater
RECURSIVE sorted(_)
sorted(keys) ==
    IF keys = << >> THEN << >>
    ELSE LET n      == Len(keys)
             x      == keys[n]
             before == sorted(SubSeq(keys, 1, n - 1))
             at     == Cardinality({i \in 1..(n - 1) : ~StrLess(str(x), str(before[i]))})
         IN  SubSeq(before, 1, at) \o <<x>> \o SubSeq(before, at + 1, n - 1)

RECURSIVE print_tree(_, _, _, _)
RECURSIVE PrintChildren(_, _, _, _)
\* lines 205-208: for value, child in sorted_children: print_tree(child, ...)
PrintChildren(nodes, path, values, indent_level) ==
    IF values = << >> THEN << >>
    ELSE LET value == Head(values)
         IN  print_tree(nodes, path \o <<value>>, indent_level + 1, str(value))
             \o PrintChildren(nodes, path, Tail(values), indent_level)

print_tree_NoneWithoutPrefix(nodes, path, indent_level, value_prefix) ==
    LET node   == nodes[path]
        indent == Spaces(IndentWidth * indent_level)
    IN  IF node.kind = "None"
        THEN <<indent \o BrakDrzewa>>
        ELSE IF node.label # None
        THEN <<indent \o value_prefix \o ArrowD \o str(node.label[1])>>
        ELSE LET attribute_display_index == node.attribute[1] + 1
                 header ==
                     IF indent_level = 0
                     THEN Atrybut \o Decimal(attribute_display_index)
                     ELSE indent \o value_prefix \o ArrowAtrybut
                          \o Decimal(attribute_display_index)
                 sorted_children == sorted(node.children)
             IN  <<header>> \o PrintChildren(nodes, path, sorted_children, indent_level)

print_tree_ZeroBasedIndex(nodes, path, indent_level, value_prefix) ==
    LET node   == nodes[path]
        indent == Spaces(IndentWidth * indent_level)
    IN  IF node.kind = "None"
        THEN <<indent \o value_prefix \o BrakDrzewa>>
        ELSE IF node.label # None
        THEN <<indent \o value_prefix \o ArrowD \o str(node.label[1])>>
        ELSE LET attribute_display_index == node.attribute[1]
                 header ==
                     IF indent_level = 0
                     THEN Atrybut \o Decimal(attribute_display_index)
                     ELSE indent \o value_prefix \o ArrowAtrybut
                          \o Decimal(attribute_display_index)
                 sorted_children == sorted(node.children)
             IN  <<header>> \o PrintChildren(nodes, path, sorted_children, indent_level)

\* the lines print_tree(node, indent_level, value_prefix) prints, for the
\* node at path
print_tree(nodes, path, indent_level, value_prefix) ==
    LET node   == nodes[path]
        indent == Spaces(IndentWidth * indent_level)
    IN  IF node.kind = "None"
        THEN <<indent \o value_prefix \o BrakDrzewa>>
        ELSE IF node.label # None
        THEN <<indent \o value_prefix \o ArrowD \o str(node.label[1])>>
        ELSE LET attribute_display_index == node.attribute[1] + 1
                 header ==
                     IF indent_level = 0
                     THEN Atrybut \o Decimal(attribute_display_index)
                     ELSE indent \o value_prefix \o ArrowAtrybut
                          \o Decimal(attribute_display_index)
                 sorted_children == sorted(node.children)
             IN  <<header>> \o PrintChildren(nodes, path, sorted_children, indent_level)

(***************************************************************************)
(* The program: main() builds the tree of the table (line 254) and prints  *)
(* it (line 255).  stack holds the build_tree calls that are still to be   *)
(* made, the next one first: the call at the head runs, and where it       *)
(* splits, the calls of its loop (lines 173-175) take its place, in the    *)
(* order of the loop.  A dict lists its keys in the order they were put    *)
(* in, which is the order of the loop: the node's children are entered as  *)
(* that sequence of keys at once.                                          *)
(***************************************************************************)
VARIABLES data, pc, stack, tree, out

vars == <<data, pc, stack, tree, out>>

EmptyTree == [path \in {} |-> NoTree]

Init ==
    /\ data \in Tables
    /\ pc = "build"
    /\ stack = <<[path |-> << >>, data |-> data]>>
    /\ tree = EmptyTree
    /\ out = << >>

\* the call at the head of the stack returns node, after making the calls
Return(node, calls) ==
    /\ tree' = (Head(stack).path :> node) @@ tree
    /\ stack' = calls \o Tail(stack)
    /\ pc' = IF stack' = << >> THEN "print" ELSE "build"
    /\ UNCHANGED <<data, out>>

\* lines 140-141
ReturnNone ==
    /\ pc = "build"
    /\ Head(stack).data = << >>
    /\ Return(NoTree, << >>)

\* lines 144-146
ReturnPureLeaf ==
    /\ pc = "build"
    /\ Head(stack).data # << >>
    /\ LET decisions == DecisionColumn(Head(stack).data)
       IN  /\ AllSame(decisions)
           /\ Return(TreeNode(None, << >>, <<decisions[1]>>, Head(stack).data), << >>)

\* lines 149-168
ReturnMajorityLeaf ==
    /\ pc = "build"
    /\ Head(stack).data # << >>
    /\ ~AllSame(DecisionColumn(Head(stack).data))
    /\ \E best \in {BestAttribute(Head(stack).data)} :
          LET decision_counts == Counter(DecisionColumn(Head(stack).data))
              majority_label  == MaxByCount(decision_counts)
          IN  /\ FCmp(best.best_gain_ratio, FZero) = 0
              /\ Return(TreeNode(None, << >>, <<majority_label>>, Head(stack).data),
                        << >>)

\* lines 149-176
Split ==
    /\ pc = "build"
    /\ Head(stack).data # << >>
    /\ ~AllSame(DecisionColumn(Head(stack).data))
    /\ \E best \in {BestAttribute(Head(stack).data)} :
           /\ FCmp(best.best_gain_ratio, FZero) # 0
           /\ best.best_attribute # None
           /\ \E values \in IterationOrders(ValueSet(Head(stack).data,
                                                     best.best_attribute[1])) :
                 Return(TreeNode(best.best_attribute, values, None, Head(stack).data),
                        [i \in 1..Len(values) |->
                            [path |-> Head(stack).path \o <<values[i]>>,
                             data |-> Subset(Head(stack).data,
                                             best.best_attribute[1], values[i])]])

\* lines 149-172: row[None] raises TypeError, which nothing catches
RaiseTypeError ==
    /\ pc = "build"
    /\ Head(stack).data # << >>
    /\ ~AllSame(DecisionColumn(Head(stack).data))
    /\ \E best \in {BestAttribute(Head(stack).data)} :
           /\ FCmp(best.best_gain_ratio, FZero) # 0
           /\ best.best_attribute = None
    /\ pc' = "raised"
    /\ UNCHANGED <<data, stack, tree, out>>

\* line 255
PrintTree ==
    /\ pc = "print"
    /\ out' = print_tree(tree, << >>, 0, << >>)
    /\ pc' = "done"
    /\ UNCHANGED <<data, stack, tree>>

Next ==
    \/ ReturnNone
    \/ ReturnPureLeaf
    \/ ReturnMajorityLeaf
    \/ Split
    \/ RaiseTypeError
    \/ PrintTree

Spec == Init /\ [][Next]_vars

(***************************************************************************)
(* The properties.  A node is named by its path; the current table of a    *)
(* node is the argument of the call that built it.                         *)
(***************************************************************************)
IsLeaf(node)     == node.kind = "TreeNode" /\ node.label # None
IsInternal(node) == node.kind = "TreeNode" /\ node.label = None

Parent(path) == SubSeq(path, 1, Len(path) - 1)
Last(path)   == path[Len(path)]

\* whether the tree is built (build_tree has returned to main)
Built == pc \in {"print", "done"}

\* the number of condition attributes of a non-empty table
Width(rows) == Len(rows[1]) - 1

Decision(row) == row[Len(row)]

\* whether the decision values of rows are not all the same
Mixed(rows) ==
    \E r1, r2 \in 1..Len(rows) : ~PyEq(Decision(rows[r1]), Decision(rows[r2]))

\* the gain ratios of the condition attributes 0, 1, ... of rows, in order
RECURSIVE GainRatiosFrom(_, _, _)
GainRatiosFrom(rows, entropy, i) ==
    IF i >= Width(rows) THEN << >>
    ELSE <<calculate_gain_ratio(rows, i, entropy)>> \o GainRatiosFrom(rows, entropy, i + 1)

GainRatios(rows) ==
    GainRatiosFrom(rows, calculate_entropy(Counter(DecisionColumn(rows))), 0)

\* whether the best of the gain ratios grs is exactly 0
BestIsZero(grs) ==
    /\ \E i \in 1..Len(grs) : FCmp(grs[i], FZero) = 0
    /\ \A i \in 1..Len(grs) : FCmp(grs[i], FZero) <= 0

\* the rows of the table that reach the node at path when the splits of its
\* ancestors are applied to them again
Reaching(path) ==
    SelectSeq(data, LAMBDA row :
        \A i \in 1..Len(path) :
            PyEq(row[tree[SubSeq(path, 1, i - 1)].attribute[1] + 1], path[i]))

\* whether attribute i (from 0) has one value in all of rows
ConstantIn(rows, i) ==
    \A r \in 1..Len(rows) : PyEq(rows[r][i + 1], rows[1][i + 1])

\* C1: every node that splits does so on the attribute whose gain ratio over
\* the node's table is the highest, and on the lowest index among the
\* attributes that share the highest gain ratio; its table is not empty and
\* its decision values are not all the same.
C1_SplitsOnFirstBestAttribute ==
    \A path \in DOMAIN tree :
        IsInternal(tree[path]) =>
            /\ tree[path].data # << >>
            /\ Mixed(tree[path].data)
            /\ \A grs \in {GainRatios(tree[path].data)} :
                  \A a \in {tree[path].attribute[1] + 1} :
                      /\ a \in 1..Len(grs)
                      /\ \A i \in 1..Len(grs) : FCmp(grs[i], grs[a]) <= 0
                      /\ \A i \in 1..(a - 1) : FCmp(grs[i], grs[a]) < 0

\* a node that splits on attribute 0 although a later attribute has the same,
\* highest, gain ratio
C1_TieWitness ==
    \E path \in DOMAIN tree :
        /\ IsInternal(tree[path])
        /\ tree[path].attribute = <<0>>
        /\ \E grs \in {GainRatios(tree[path].data)} :
              \E i \in 2..Len(grs) : FCmp(grs[i], grs[1]) = 0

\* C2: the rows that reach a leaf all have the leaf's label as their decision
\* value, or the best gain ratio over those rows is exactly 0 (the leaf is a
\* majority vote); and a table whose decision values are all the same gives a
\* leaf with that value at once, a tree of that one node.
C2_LeafPurity ==
    /\ \A path \in DOMAIN tree :
          IsLeaf(tree[path]) =>
              \A rows \in {Reaching(path)} :
                  \/ \A r \in 1..Len(rows) :
                         PyEq(Decision(rows[r]), tree[path].label[1])
                  \/ BestIsZero(GainRatios(rows))
    /\ (data # << >> /\ ~Mixed(data) /\ Built) =>
          /\ DOMAIN tree = {<< >>}
          /\ IsLeaf(tree[<< >>])
          /\ tree[<< >>].label = <<Decision(data[1])>>

\* a tree with a pure leaf and a majority leaf under one split, printed
C2_Witness ==
    /\ pc = "done"
    /\ \E p1, p2 \in DOMAIN tree :
          /\ Len(p1) = 1 /\ Len(p2) = 1
          /\ IsLeaf(tree[p1]) /\ IsLeaf(tree[p2])
          /\ ~Mixed(Reaching(p1))
          /\ Mixed(Reaching(p2))

\* C3: build_tree does not raise on a table that is not empty, and returns a
\* leaf or an internal node for it.
C3_NoFailureMode ==
    data # << >> =>
        /\ pc # "raised"
        /\ Built => tree[<< >>].kind = "TreeNode"

\* C4: for the empty table build_tree returns None and makes no node, and
\* print_tree of None is one line: the indentation, the branch label and
\* "Brak drzewa".
C4_EmptyTable ==
    /\ data = << >> =>
          /\ pc # "raised"
          /\ \A path \in DOMAIN tree : path = << >> /\ tree[path].kind = "None"
          /\ Built => << >> \in DOMAIN tree
          /\ pc = "done" =>
                out = << <<"B", "r", "a", "k", " ", "d", "r", "z", "e", "w", "a">> >>
    /\ data # << >> => \A path \in DOMAIN tree : tree[path].kind # "None"
    /\ pc = "done" =>
          \A indent_level \in 0..2 :
              \A value_prefix \in {<< >>, <<"1", "0">>} :
                  print_tree((<< >> :> NoTree), << >>, indent_level, value_prefix)
                  = << [i \in 1..(10 * indent_level) |-> " "] \o value_prefix
                       \o <<"B", "r", "a", "k", " ", "d", "r", "z", "e", "w", "a">> >>

\* the empty table, built and printed
C4_Witness == data = << >> /\ pc = "done" /\ Len(out) = 1

\* C5: an attribute with one value in all of a node's table has the gain
\* ratio 0 exactly, no node splits on such an attribute, and every node that
\* splits has at least two children.
C5_ZeroSplitPolicy ==
    \A path \in DOMAIN tree :
        tree[path].kind = "TreeNode" =>
            \A rows \in {tree[path].data} :
                /\ \A i \in 0..(Width(rows) - 1) :
                      ConstantIn(rows, i) =>
                          /\ calculate_gain_ratio(
                                 rows, i, calculate_entropy(Counter(DecisionColumn(rows))))
                             = FZero
                          /\ tree[path].attribute # <<i>>
                /\ IsInternal(tree[path]) => Len(tree[path].children) >= 2

\* a node that splits on attribute 1 where attribute 0 has one value only
C5_Witness ==
    \E path \in DOMAIN tree :
        /\ IsInternal(tree[path])
        /\ tree[path].attribute = <<1>>
        /\ ConstantIn(tree[path].data, 0)

\* the tree with the children of the node at path entered in the order keys
Reinserted(path, keys) == [tree EXCEPT ![path].children = keys]

\* C6: print_tree visits the children of a node in ascending order of the
\* str of their branch values, and what it prints does not depend on the
\* order in which the children were entered in the node: with the children
\* of any node entered in any other order the lines are the same.
C6_OutputIndependentOfInsertionOrder ==
    /\ \A path \in DOMAIN tree :
          \A keys \in {sorted(tree[path].children)} :
              \A i, j \in 1..Len(keys) :
                  i < j => ~StrLess(str(keys[j]), str(keys[i]))
    /\ pc = "done" =>
          \A path \in DOMAIN tree :
              \A keys \in IterationOrders(tree[path].children) :
                  print_tree(Reinserted(path, keys), << >>, 0, << >>) = out

\* the line of the node at path: root_word opens the line of a root that
\* splits, arrow_word follows the branch value of any other node that splits
ExpectedLine(path, root_word, arrow_word) ==
    LET node   == tree[path]
        indent == [i \in 1..(10 * Len(path)) |-> " "]
        branch == IF path = << >> THEN << >> ELSE str(Last(path))
    IN  IF IsLeaf(node)
        THEN indent \o branch \o <<" ", "-", ">", " ", "D", ":", " ">>
             \o str(node.label[1])
        ELSE IF IsInternal(node)
        THEN IF path = << >>
             THEN root_word \o Decimal(node.attribute[1] + 1)
             ELSE indent \o branch \o arrow_word \o Decimal(node.attribute[1] + 1)
        ELSE indent \o branch \o <<"B", "r", "a", "k", " ", "d", "r", "z", "e", "w", "a">>

\* the output is one line for every node, the root's first, each as
\* ExpectedLine gives it
LinesAre(root_word, arrow_word) ==
    pc = "done" =>
        /\ Len(out) = Cardinality(DOMAIN tree)
        /\ out[1] = ExpectedLine(<< >>, root_word, arrow_word)
        /\ \A path \in DOMAIN tree :
              \E i \in 1..Len(out) : out[i] = ExpectedLine(path, root_word, arrow_word)
        /\ \A i \in 1..Len(out) :
              \E path \in DOMAIN tree : out[i] = ExpectedLine(path, root_word, arrow_word)

\* C7, as amended: a leaf at depth d is printed as d times ten spaces, the
\* branch value, " -> D: " and the label; a root that splits as "Atrybut: N";
\* any other node that splits as the indentation, the branch value and
\* "->Atrybut: N"; N is the attribute index plus 1.
C7_LineFormats ==
    LinesAre(<<"A", "t", "r", "y", "b", "u", "t", ":", " ">>,
             <<"-", ">", "A", "t", "r", "y", "b", "u", "t", ":", " ">>)

\* C7, as claimed: the words are "Attribute: N" and "->Attribute: N".
C7_AttributeWord ==
    LinesAre(<<"A", "t", "t", "r", "i", "b", "u", "t", "e", ":", " ">>,
             <<"-", ">", "A", "t", "t", "r", "i", "b", "u", "t", "e", ":", " ">>)

\* a printed tree with a leaf under the root and a node that splits, with its
\* own leaves, under the root
C7_Witness ==
    /\ pc = "done"
    /\ \E p1, p2, p3 \in DOMAIN tree :
          /\ Len(p1) = 1 /\ IsLeaf(tree[p1])
          /\ Len(p2) = 1 /\ IsInternal(tree[p2])
          /\ Len(p3) = 2 /\ IsLeaf(tree[p3])

\* the calls made and to be made: the nodes built and the calls on the stack
Calls ==
    {[path |-> path, data |-> tree[path].data] : path \in DOMAIN tree}
    \cup {stack[i] : i \in 1..Len(stack)}

\* the depth of every call is at most the number of condition attributes, no
\* attribute is split on twice on the way to a call, and a call gets fewer
\* rows than the call that makes it
C8_Bounded ==
    \A call \in Calls :
        /\ data # << >> => Len(call.path) <= Width(data)
        /\ \A i, j \in 0..(Len(call.path) - 1) :
              i < j => tree[SubSeq(call.path, 1, i)].attribute
                       # tree[SubSeq(call.path, 1, j)].attribute
        /\ call.path # << >> => Len(call.data) < Len(tree[Parent(call.path)].data)

\* what is left to do: 3^n for every call still to be made, on n rows, and
\* the steps of main() after them
RECURSIVE Weight(_)
Weight(calls) ==
    IF calls = << >> THEN 0
    ELSE 3 ^ Len(Head(calls).data) + Weight(Tail(calls))

C8_Variant ==
    3 * Weight(stack) + (CASE pc = "build" -> 2 [] pc = "print" -> 1 [] OTHER -> 0)

\* C8: build_tree terminates: every step it takes leaves less to do, a call
\* being replaced by calls on fewer rows each, so that no run goes on for
\* ever; the depth of its recursion is at most the number of condition
\* attributes, no attribute is split on twice on a path, and every recursive
\* call gets fewer rows than its caller.
C8_Terminates ==
    /\ [] C8_Bounded
    /\ [][C8_Variant' < C8_Variant]_vars

\* a tree, built, with a split under a split
C8_Witness ==
    /\ Built
    /\ data # << >>
    /\ Width(data) = 2
    /\ \E path \in DOMAIN tree : Len(path) = 2

\* how often the decision value v occurs in rows, and where first
CountOf(rows, v) == Cardinality({r \in 1..Len(rows) : PyEq(Decision(rows[r]), v)})
FirstOf(rows, v) == CHOOSE r \in 1..Len(rows) :
                        /\ PyEq(Decision(rows[r]), v)
                        /\ \A q \in 1..(r - 1) : ~PyEq(Decision(rows[q]), v)

\* C9: a node whose decision values are not all the same and whose best gain
\* ratio is exactly 0 is a leaf, without children and without calls made for
\* it; no decision value occurs more often in its table than its label, and
\* of the values that occur as often the label is the first in row order.
C9_MajorityLeaf ==
    \A path \in DOMAIN tree :
        \A rows \in {tree[path].data} :
            (tree[path].kind = "TreeNode" /\ Mixed(rows) /\ BestIsZero(GainRatios(rows))) =>
                /\ IsLeaf(tree[path])
                /\ tree[path].children = << >>
                /\ \A call \in Calls :
                      Len(call.path) > Len(path) =>
                          SubSeq(call.path, 1, Len(path)) # path
                /\ \A label \in {tree[path].label[1]} :
                      /\ label = Decision(rows[FirstOf(rows, label)])
                      /\ \A r \in 1..Len(rows) :
                            \A v \in {Decision(rows[r])} :
                                /\ CountOf(rows, v) <= CountOf(rows, label)
                                /\ CountOf(rows, v) = CountOf(rows, label)
                                       => FirstOf(rows, label) <= FirstOf(rows, v)

\* a majority leaf for a table whose two decision values occur as often as
\* each other, the label being that of the first row
C9_Witness ==
    \E path \in DOMAIN tree :
        \A rows \in {tree[path].data} :
            /\ IsLeaf(tree[path])
            /\ Mixed(rows)
            /\ \E r \in 1..Len(rows) :
                  /\ ~PyEq(Decision(rows[r]), tree[path].label[1])
                  /\ CountOf(rows, Decision(rows[r])) = CountOf(rows, tree[path].label[1])

\* whether v and w are one branch value: by type and value, or by Python's ==
Same(v, w, typed) == IF typed THEN v = w ELSE PyEq(v, w)

\* the children of the node at path are its keys, one for every value of the
\* split attribute in the node's table; the child of a key is a node built
\* from the rows with that value, of which there is at least one, and every
\* row is in the table of one child only
ChildrenPartition(path, typed) ==
    LET node == tree[path]
        rows == node.data
        a    == node.attribute[1] + 1
        keys == node.children
    IN  /\ \A i, j \in 1..Len(keys) : Same(keys[i], keys[j], typed) => i = j
        /\ \A r \in 1..Len(rows) :
              Cardinality({i \in 1..Len(keys) : Same(rows[r][a], keys[i], typed)}) = 1
        /\ \A i \in 1..Len(keys) :
              /\ \E r \in 1..Len(rows) : Same(rows[r][a], keys[i], typed)
              /\ Built => (path \o <<keys[i]>>) \in DOMAIN tree
              /\ (path \o <<keys[i]>>) \in DOMAIN tree =>
                    /\ tree[path \o <<keys[i]>>].kind = "TreeNode"
                    /\ tree[path \o <<keys[i]>>].data # << >>
                    /\ tree[path \o <<keys[i]>>].data
                       = SelectSeq(rows, LAMBDA row : Same(row[a], keys[i], typed))

\* every node but the root is the child of a node that splits, under one of
\* its keys, and its table is made of the rows that reach it
ChildrenOfSplits ==
    \A path \in DOMAIN tree :
        /\ path # << >> =>
              /\ Parent(path) \in DOMAIN tree
              /\ IsInternal(tree[Parent(path)])
              /\ \E i \in 1..Len(tree[Parent(path)].children) :
                    tree[Parent(path)].children[i] = Last(path)
        /\ tree[path].data = Reaching(path)

=============================================================================




